---------------------------- MODULE Spec2Model ----------------------------
(***************************************************************************)
(* Hopf fibration mesh generator (martinfrances107/hopf).                  *)
(*                                                                         *)
(* The model covers the library crate (lib/src: Vertex, project, weave,    *)
(* Fibre, path_length, Obj), the mesh builder of bevy_hopf and the main    *)
(* loop of points2Obj_mesh.                                                *)
(*                                                                         *)
(* Numbers.  f32 values are modelled in fixed point: a length or a         *)
(* trigonometric value v is the integer v * ONE, an angle is an integer    *)
(* number of units with PI_U units to pi.  Every operation rounds to that  *)
(* resolution, as the f32 operation rounds to its own.  NaN is a value of  *)
(* its own and is propagated as IEEE 754 does; NegZero is the float -0.0,  *)
(* which compares equal to 0.0 but has other bits.                         *)
(***************************************************************************)
EXTENDS Integers, Sequences, FiniteSets, TLC

\* ------------------------------------------------------------------------
\* Bounds of the model
\* ------------------------------------------------------------------------

\* Longest triangle list the API-level specification lets a builder reach.
MaxTriangles == 2

\* Largest number of quad lists pushed into an Obj.
MaxObjects == 2

\* The number of chords path_length is asked for: Fibre::build passes
\* 10_000, the model a number TLC can sum.
PathLengthSteps == 72

\* Largest n_loops given to weave.
MaxLoops == 3

\* The number of fine samples build_uniform takes of a fibre: the code
\* takes 1024.
NDetailed == 16

\* Largest target_samples and n_tries given to Fibre::build.
MaxSamples == 4

MaxTries == 4

\* ------------------------------------------------------------------------
\* Fixed point numbers
\* ------------------------------------------------------------------------

\* 1.0 in fixed point.
ONE == 10000

\* pi in angle units (one unit is 0.01 degree).
PI_U == 18000

TAU_U == 2 * PI_U

FRAC_PI_2_U == PI_U \div 2

\* The float NaN and the float -0.0: two codes outside the finite range.
NaN == 2000000001

NegZero == NaN + 1

IsNaN(x) == x = NaN

\* The numerical value of a float that is not NaN.
Val(x) == IF x = NegZero THEN 0 ELSE x

Abs(x) == IF x < 0 THEN -x ELSE x

Max(a, b) == IF a >= b THEN a ELSE b

\* a / b rounded to the nearest integer (b > 0), as an f32 operation rounds
\* to the nearest float.
RDiv(a, b) == (a + b \div 2) \div b

\* f32 addition, subtraction: exact at the resolution, NaN in, NaN out.
FAdd(a, b) == IF IsNaN(a) \/ IsNaN(b) THEN NaN ELSE Val(a) + Val(b)

FSub(a, b) == IF IsNaN(a) \/ IsNaN(b) THEN NaN ELSE Val(a) - Val(b)

\* f32 multiplication of two fixed point values: a * b / ONE rounded to the
\* nearest, computed in two halves so that the intermediate product stays
\* in range.
FMul(a, b) ==
    IF IsNaN(a) \/ IsNaN(b) THEN NaN
    ELSE LET x == Val(a)
             y == Val(b)
         IN (x \div ONE) * y + RDiv((x % ONE) * y, ONE)

\* f32 division of two fixed point values; x / 0 is an infinity or NaN, and
\* every later use of it in this program yields NaN.
FDiv(a, b) ==
    IF IsNaN(a) \/ IsNaN(b) \/ Val(b) = 0 THEN NaN
    ELSE IF Val(b) > 0 THEN RDiv(Val(a) * ONE, Val(b))
    ELSE RDiv(-Val(a) * ONE, -Val(b))

\* IEEE comparisons: false as soon as one side is NaN.
FGt(a, b) == ~IsNaN(a) /\ ~IsNaN(b) /\ Val(a) > Val(b)

FLt(a, b) == ~IsNaN(a) /\ ~IsNaN(b) /\ Val(a) < Val(b)

FGe(a, b) == ~IsNaN(a) /\ ~IsNaN(b) /\ Val(a) >= Val(b)

\* A float over a count turned into a float (f32::from(n), n as f32): the
\* quotient keeps the unit of a.  x / 0.0 is an infinity or NaN, and every
\* later use of it in this program yields NaN or an empty iteration.
DivByCount(a, n) ==
    IF IsNaN(a) \/ n = 0 THEN NaN
    ELSE IF Val(a) >= 0 THEN RDiv(Val(a), n)
    ELSE -RDiv(-Val(a), n)

\* f32::mul_add(self = i, a = step, b = base) = i * step + base.
MulAdd(i, step, base) ==
    IF IsNaN(step) \/ IsNaN(base) THEN NaN ELSE i * step + Val(base)

\* Integer square root, by bisection of lo..hi (lo * lo <= n).
RECURSIVE SqrtIter(_, _, _)
SqrtIter(n, lo, hi) ==
    IF lo >= hi THEN lo
    ELSE LET mid == (lo + hi + 1) \div 2
         IN IF mid * mid <= n THEN SqrtIter(n, mid, hi)
            ELSE SqrtIter(n, lo, mid - 1)

Sqrt(n) == SqrtIter(n, 0, 46340)

\* ------------------------------------------------------------------------
\* f32::sin, f32::cos, f32::acos
\* ------------------------------------------------------------------------

\* sin on one half wave, x in 0..PI_U: the rational approximation
\* 16 x (pi - x) / (5 pi^2 - 4 x (pi - x)), which is exact at 0, pi/6, pi/2,
\* symmetric about pi/2 and within 0.2% of the sine in between.
SinHalfWave(x) ==
    LET p == x * (PI_U - x)
    IN RDiv(16 * p, (5 * PI_U * PI_U - 4 * p) \div ONE)

\* f32::sin of an angle in units; NaN in, NaN out.
Sin(a) ==
    IF IsNaN(a) THEN NaN
    ELSE LET r == Val(a) % TAU_U
         IN IF r <= PI_U THEN SinHalfWave(r) ELSE -SinHalfWave(r - PI_U)

\* f32::cos.
Cos(a) == IF IsNaN(a) THEN NaN ELSE Sin(Val(a) + FRAC_PI_2_U)

\* Bisection for acos: Cos(lo) >= c >= Cos(hi) on the decreasing branch.
RECURSIVE AcosIter(_, _, _)
AcosIter(c, lo, hi) ==
    IF hi - lo <= 1
    THEN IF Cos(lo) - c <= c - Cos(hi) THEN lo ELSE hi
    ELSE LET mid == (lo + hi) \div 2
         IN IF Cos(mid) >= c THEN AcosIter(c, mid, hi)
            ELSE AcosIter(c, lo, mid)

\* f32::acos: the angle in [0, pi]; NaN outside [-1, 1].
Acos(c) ==
    IF IsNaN(c) \/ Val(c) > ONE \/ Val(c) < -ONE THEN NaN
    ELSE AcosIter(Val(c), 0, PI_U)

\* Half of an angle (a / 2.0), rounded to the resolution.
Half(a) == IF IsNaN(a) THEN NaN ELSE RDiv(Val(a), 2)

\* ------------------------------------------------------------------------
\* Vertex (lib/src/lib.rs)
\* ------------------------------------------------------------------------

\* f32::to_bits: sign and magnitude, the sign in the top bit.  -0.0 is the
\* sign bit alone, NaN the pattern above every finite magnitude.
SignBit == NaN + 2

ToBits(f) ==
    IF f = NegZero THEN SignBit
    ELSE IF IsNaN(f) THEN NaN
    ELSE IF f >= 0 THEN f
    ELSE SignBit + (-f)

\* What `==` on the f32 components would be: NaN differs from itself and
\* -0.0 equals 0.0.
FloatEq(x, y) == ~IsNaN(x) /\ ~IsNaN(y) /\ Val(x) = Val(y)

VertexEqFloat(a, b) ==
    /\ FloatEq(a[1], b[1])
    /\ FloatEq(a[2], b[2])
    /\ FloatEq(a[3], b[3])

\* impl PartialEq for Vertex: the three components agree bit for bit.
VertexEq(a, b) ==
    /\ ToBits(a[1]) = ToBits(b[1])
    /\ ToBits(a[2]) = ToBits(b[2])
    /\ ToBits(a[3]) = ToBits(b[3])

NaNVertex == <<NaN, NaN, NaN>>

\* What a call that panicked hands back: the unwinding reaches every caller.
PANIC == NaN + 3

PanicVertex == <<PANIC, PANIC, PANIC>>

IsPanic(v) == v = PanicVertex

HasNaN(v) == IsNaN(v[1]) \/ IsNaN(v[2]) \/ IsNaN(v[3])

\* impl Sub for Vertex.
VSub(a, b) == <<FSub(a[1], b[1]), FSub(a[2], b[2]), FSub(a[3], b[3])>>

\* Vertex::length and glam's Vec3::distance: the square root of the sum of
\* the squares.  Long vectors are scaled first, as a float keeps its
\* relative precision while the sum of squares stays in range.
VLength(d) ==
    IF HasNaN(d) THEN NaN
    ELSE LET m == Max(Abs(d[1]), Max(Abs(d[2]), Abs(d[3])))
             k == 1 + m \div 26000
             x == Abs(d[1]) \div k
             y == Abs(d[2]) \div k
             z == Abs(d[3]) \div k
         IN k * Sqrt(x * x + y * y + z * z)

Distance(a, b) == VLength(VSub(a, b))

\* ------------------------------------------------------------------------
\* project (lib/src/lib.rs)
\* ------------------------------------------------------------------------

\* f32::EPSILON is below the resolution: |1 - X3| < EPSILON is X3 = 1.
EPSILON == 1

\* Stereographic projection; panics ("division by zero") at the pole.
project(X0, X1, X2, X3) ==
    IF FLt(Abs(FSub(ONE, X3)), EPSILON)
    THEN PanicVertex
    ELSE <<FDiv(X0, FSub(ONE, X3)),
           FDiv(X1, FSub(ONE, X3)),
           FDiv(X2, FSub(ONE, X3))>>

\* ------------------------------------------------------------------------
\* Fibre (lib/src/fibre.rs)
\* ------------------------------------------------------------------------

\* The domain of a fibre is 0..4PI.
ALPHA_MAX == 4 * PI_U

\* Fibre::new: debug_assert! only, a release build takes any argument.
FibreNew(sp, alpha) == [sp |-> sp, alpha |-> alpha]

\* Fibre::extract_settings.
extract_settings(self) ==
    LET sin_lat == Sin(self.sp.lat)
        cos_lat == Cos(self.sp.lat)
        cos_lon == Cos(self.sp.lon)
        x == FMul(cos_lat, cos_lon)
        z == sin_lat
        eta == Half(Acos(z))
        sin2n == Sin(FAdd(eta, eta))
        x_div_sin2n == FDiv(x, sin2n)
        xi1 == Acos(x_div_sin2n)
    IN [eta |-> eta, xi1 |-> xi1]

\* The closure returned by Fibre::projected_fibre, applied to xi2.
FibreAt(settings, xi2) ==
    LET sin_eta == Sin(settings.eta)
        cos_eta == Cos(settings.eta)
        mid == Half(FAdd(settings.xi1, xi2))
        dif == Half(FSub(xi2, settings.xi1))
        X1 == FMul(Cos(mid), sin_eta)
        X2 == FMul(Sin(mid), sin_eta)
        X3 == FMul(Cos(dif), cos_eta)
        X4 == FMul(Sin(dif), cos_eta)
    IN project(X1, X2, X3, X4)

projected_fibre(self, xi2) == FibreAt(extract_settings(self), xi2)

\* ------------------------------------------------------------------------
\* path_length (lib/src/length.rs)
\* ------------------------------------------------------------------------

\* The part of the fold over 1..n that rounds lo + 1 .. hi add up: round k
\* adds the distance from f(start + (k - 1) step) to f(start + k step).
\* Sums at the resolution are exact, so the fold is taken by halves; PANIC
\* as soon as an evaluation panics.
RECURSIVE PathLengthFold(_, _, _, _, _)
PathLengthFold(settings, start, step, lo, hi) ==
    IF hi <= lo THEN 0
    ELSE IF hi = lo + 1
    THEN LET f_last == FibreAt(settings, start + lo * step)
             f == FibreAt(settings, start + hi * step)
         IN IF IsPanic(f_last) \/ IsPanic(f) THEN PANIC
            ELSE Distance(f_last, f)
    ELSE LET mid == (lo + hi) \div 2
             a == PathLengthFold(settings, start, step, lo, mid)
             b == PathLengthFold(settings, start, step, mid, hi)
         IN IF a = PANIC \/ b = PANIC THEN PANIC ELSE FAdd(a, b)

path_length(settings, alpha_range, n) ==
    LET step == RDiv(alpha_range.end - alpha_range.start, n)
    IN IF IsPanic(FibreAt(settings, alpha_range.start)) THEN PANIC
       ELSE PathLengthFold(settings, alpha_range.start, step, 0, n - 1)

\* ------------------------------------------------------------------------
\* Fibre::build (lib/src/fibre.rs)
\* ------------------------------------------------------------------------

\* 0.001 in fixed point.
TOLLERANCE == ONE \div 1000

\* The frame of Fibre::build on entry to 'outer, after the length of the
\* path has been taken.  pc is "adaptive" inside the loops, and "ok", "err"
\* or "panic" once the call has returned or unwound.
BuildFrame(self, target_samples, n_tries, settings, len, f_start) ==
    LET panicked == len = PANIC \/ IsPanic(f_start)
        target_dist == IF panicked \/ IsNaN(len) THEN NaN
                       ELSE RDiv(len, target_samples)
        delta == FMul(TOLLERANCE, target_dist)
    IN [pc |-> IF panicked THEN "panic" ELSE "adaptive",
        settings |-> settings,
        alpha_end |-> self.alpha.end,
        target_samples |-> target_samples,
        n_tries |-> n_tries,
        distance_min |-> FSub(target_dist, delta),
        distance_max |-> FAdd(target_dist, delta),
        step |-> RDiv(ALPHA_MAX, target_samples),
        f_last |-> f_start,
        alpha_last |-> self.alpha.start,
        points |-> <<>>,
        alphas |-> <<>>,
        i |-> 0]

\* The settings, the path length and the first point of build.
BuildSetUp(self, target_samples, n_tries, settings) ==
    BuildFrame(self, target_samples, n_tries, settings,
               path_length(settings, self.alpha, PathLengthSteps),
               FibreAt(settings, self.alpha.start))

BuildEnter(self, target_samples, n_tries) ==
    BuildSetUp(self, target_samples, n_tries, extract_settings(self))

\* The tail of 'outer leaving the loop once target_samples points are in.
BuildAccept_stop_on_count(b, f, alpha) ==
    [b EXCEPT !.f_last = f,
              !.alpha_last = alpha,
              !.points = Append(@, f),
              !.alphas = Append(@, alpha),
              !.i = 0,
              !.pc = IF Len(b.points) + 1 >= b.target_samples
                     THEN "ok" ELSE "adaptive"]

\* The tail of 'outer once 'adaptive_loop has broken with (f, alpha).
BuildAccept(b, f, alpha) ==
    [b EXCEPT !.f_last = f,
              !.alpha_last = alpha,
              !.points = Append(@, f),
              !.alphas = Append(@, alpha),
              !.i = 0,
              !.pc = IF alpha >= b.alpha_end THEN "ok" ELSE "adaptive"]

\* The rest of a pass of 'adaptive_loop that did not break: the step has
\* been adjusted to step2.
BuildRetry(b, step2) ==
    IF b.i > b.n_tries
    THEN [b EXCEPT !.pc = "err", !.step = step2, !.points = <<>>, !.alphas = <<>>]
    ELSE [b EXCEPT !.step = step2, !.i = @ + 1]

\* One pass of 'adaptive_loop, with the tail of 'outer when it breaks.
BuildPass(b) ==
    LET alpha == b.alpha_last + b.step
        f == FibreAt(b.settings, alpha)
        d == Distance(b.f_last, f)
    IN IF IsPanic(f) THEN [b EXCEPT !.pc = "panic"]
       ELSE IF alpha > b.alpha_end THEN BuildAccept(b, f, alpha)
       ELSE IF FGt(d, b.distance_max)
            THEN BuildRetry(b, FMul(b.step, (8 * ONE) \div 10))
       ELSE IF FLt(d, b.distance_min)
            THEN BuildRetry(b, FMul(b.step, (12 * ONE) \div 10))
       ELSE BuildAccept(b, f, alpha)

\* ------------------------------------------------------------------------
\* searchable_path_length, resample_fibre (lib/src/length.rs) and
\* Fibre::build_uniform (lib/src/fibre.rs)
\* ------------------------------------------------------------------------

\* i as f32 * step.
Times(i, step) == IF IsNaN(step) THEN NaN ELSE i * Val(step)

\* The closure of array::from_fn in searchable_path_length, from index i on:
\* lut is the array filled so far; panic is set once an evaluation has
\* panicked.
RECURSIVE SearchableFold(_, _, _, _, _, _, _, _)
SearchableFold(settings, alpha_start, alpha_step, f_last, d, i, n, lut) ==
    IF i >= n THEN [panic |-> FALSE, lut |-> lut]
    ELSE LET alpha == MulAdd(i, alpha_step, alpha_start)
             f == FibreAt(settings, alpha)
             d2 == FAdd(d, VLength(VSub(f, f_last)))
         IN IF IsPanic(f) THEN [panic |-> TRUE]
            ELSE SearchableFold(settings, alpha_start, alpha_step, f, d2,
                                i + 1, n, Append(lut, <<alpha, d2>>))

searchable_path_length(settings, alpha_range, n) ==
    LET alpha_step == DivByCount(FSub(alpha_range.end, alpha_range.start), n)
        f_last == FibreAt(settings, alpha_range.start)
    IN IF IsPanic(f_last) THEN [panic |-> TRUE]
       ELSE SearchableFold(settings, alpha_range.start, alpha_step, f_last,
                           0, 0, n, <<>>)

\* Iterator::find over lut from position from on: the first position whose
\* distance is at least the threshold, 0 when there is none.
FirstAtLeast(lut, from, threshold) ==
    LET S == {k \in from .. Len(lut) : FGe(lut[k][2], threshold)}
    IN IF S = {} THEN 0 ELSE CHOOSE k \in S : \A j \in S : k <= j

\* 1e-3 in fixed point.
EndpointSlack == ONE \div 1000

\* The closure of resample_fibre taking the last entry of the table for
\* every slot that found none, whatever the deficit.
ResampleAt_always_last(lut, step, i) ==
    LET dist_threshold == Times(i, step)
        k == FirstAtLeast(lut, 1, dist_threshold)
    IN IF k # 0 THEN lut[k] ELSE lut[Len(lut)]

\* The closure of array::from_fn in resample_fibre at index i.
ResampleAt(lut, step, i) ==
    LET dist_threshold == Times(i, step)
        k == FirstAtLeast(lut, 1, dist_threshold)
        tail == lut[Len(lut)]
    IN IF k # 0 THEN lut[k]
       ELSE IF FLt(Abs(FSub(tail[2], dist_threshold)), EndpointSlack)
            THEN tail
       ELSE <<NaN, NaN>>

\* resample_fibre once the fine table s is there.
ResampleTable(s, n_detailed, n_coarse) ==
    IF s.panic THEN s
    ELSE LET step == DivByCount(s.lut[n_detailed][2], n_coarse - 1)
         IN [panic |-> FALSE,
             lut |-> [i \in 1 .. n_coarse |-> ResampleAt(s.lut, step, i - 1)]]

resample_fibre(settings, alpha_range, n_detailed, n_coarse) ==
    ResampleTable(searchable_path_length(settings, alpha_range, n_detailed),
                  n_detailed, n_coarse)

\* The closure of the map in build_uniform with a cursor that moves past the
\* entry it matched: last_match is the position after the match.
RECURSIVE UniformFold_past_match(_, _, _, _, _, _, _, _, _)
UniformFold_past_match(settings, lut, step, last_match, i, m, points, alphas, cursors) ==
    IF i >= m THEN [panic |-> FALSE, points |-> points, alphas |-> alphas,
                    cursors |-> cursors]
    ELSE LET dist_threshold == Times(i, step)
             k == FirstAtLeast(lut, last_match + 1, dist_threshold)
             match_index == IF k = 0 THEN 0 ELSE k
             alpha == IF k = 0 THEN NaN ELSE lut[k][1]
             f == FibreAt(settings, alpha)
         IN IF IsPanic(f) THEN [panic |-> TRUE]
            ELSE UniformFold_past_match(settings, lut, step, match_index,
                             i + 1, m,
                             Append(points, f), Append(alphas, alpha),
                             Append(cursors, [from |-> last_match,
                                              found |-> k # 0,
                                              matched |-> k - 1,
                                              last_match |-> match_index]))

\* The closure of the map in build_uniform, from index i on; last_match is
\* the variable the closure keeps.  cursors records, lookup by lookup, the
\* position the scan started from, the position of the table it matched
\* (positions counted from 0, found tells whether there was a match) and
\* last_match as the lookup left it.
RECURSIVE UniformFold(_, _, _, _, _, _, _, _, _)
UniformFold(settings, lut, step, last_match, i, m, points, alphas, cursors) ==
    IF i >= m THEN [panic |-> FALSE, points |-> points, alphas |-> alphas,
                    cursors |-> cursors]
    ELSE LET dist_threshold == Times(i, step)
             k == FirstAtLeast(lut, last_match + 1, dist_threshold)
             match_index == IF k = 0 THEN 0 ELSE k - (last_match + 1)
             alpha == IF k = 0 THEN NaN ELSE lut[k][1]
             f == FibreAt(settings, alpha)
         IN IF IsPanic(f) THEN [panic |-> TRUE]
            ELSE UniformFold(settings, lut, step, match_index, i + 1, m,
                             Append(points, f), Append(alphas, alpha),
                             Append(cursors, [from |-> last_match,
                                              found |-> k # 0,
                                              matched |-> k - 1,
                                              last_match |-> match_index]))

\* build_uniform once the coarse table r is there.
UniformFromTable(settings, r, m) ==
    IF r.panic THEN r
    ELSE UniformFold(settings, r.lut, DivByCount(r.lut[m][2], m), 0, 0, m,
                     <<>>, <<>>, <<>>)

\* build_uniform once the settings of the fibre are there.
UniformWith(settings, alpha_range, m) ==
    UniformFromTable(settings,
                     resample_fibre(settings, alpha_range, NDetailed, m), m)

\* Fibre::build_uniform::<M>: (points, alphas), unless it panicked.
build_uniform(self, m) == UniformWith(extract_settings(self), self.alpha, m)

\* ------------------------------------------------------------------------
\* Obj (lib/src/obj.rs)
\* ------------------------------------------------------------------------

\* Option::None where an index is expected: no index handed out is 0.
None == 0

\* HashMap<Vertex, _>::get.  A map is a set of <<key, value>> entries; the
\* key is found with Vertex's own equality (its hash is taken from the same
\* bits).
MapGet(map, p) ==
    IF \E e \in map : VertexEq(e[1], p)
    THEN (CHOOSE e \in map : VertexEq(e[1], p))[2]
    ELSE None

\* HashMap::insert: an entry under an equal key is replaced.
MapInsert(map, p, value) ==
    {e \in map : ~VertexEq(e[1], p)} \cup {<<p, value>>}

\* impl Default for Obj: wavefront Obj files start at index 1.
ObjDefault ==
    [next_index |-> 1, vertex_store |-> {}, quad_store |-> {}]

\* add_vertex without its `self.next_index += 1`.
Obj_add_vertex_no_increment(self, p) ==
    LET v == MapGet(self.vertex_store, p)
    IN IF v # None
       THEN [self |-> self, ret |-> v]
       ELSE [self |-> [self EXCEPT
                          !.vertex_store = MapInsert(@, p, self.next_index)],
             ret |-> self.next_index]

\* Obj::add_vertex: the Obj afterwards and the index returned.
Obj_add_vertex(self, p) ==
    LET v == MapGet(self.vertex_store, p)
    IN IF v # None
       THEN [self |-> self, ret |-> v]
       ELSE [self |-> [self EXCEPT
                          !.vertex_store = MapInsert(@, p, self.next_index),
                          !.next_index = @ + 1],
             ret |-> self.next_index]

\* Obj::push_quads: quad_store is a map from name to list, a list pushed
\* under a name already there takes the place of the former one.
Obj_push_quads(self, name, quads) ==
    [self EXCEPT !.quad_store =
        {e \in @ : e[1] # name} \cup {<<name, quads>>}]

\* ------------------------------------------------------------------------
\* HopfMeshBuilder (bevy_hopf/src/hopf.rs)
\* ------------------------------------------------------------------------

\* HopfMeshBuilder::new.
HopfMeshBuilder_new(line_start, line_end, n_points_per_loop, n_loops, n_tries) ==
    [hopf |-> [line_start |-> line_start,
               line_end |-> line_end,
               n_points_per_loop |-> n_points_per_loop,
               n_loops |-> n_loops,
               n_tries |-> n_tries],
     next_index |-> 1,
     vertex_deduple |-> {},
     vertex_buffer |-> <<>>,
     triangle_store |-> <<>>,
     normals_store |-> <<>>]

\* HopfMeshBuilder::add_vertex: the builder afterwards and (is_new, index).
\* The components of a Vertex are f32 already: `as f32` leaves them alone.
HopfMeshBuilder_add_vertex(self, p) ==
    LET v == MapGet(self.vertex_deduple, p)
    IN IF v # None
       THEN [self |-> self, ret |-> <<FALSE, v>>]
       ELSE [self |-> [self EXCEPT
                          !.vertex_deduple = MapInsert(@, p, self.next_index),
                          !.vertex_buffer = Append(@, p),
                          !.next_index = @ + 1],
             ret |-> <<TRUE, self.next_index>>]

\* glam's Vec3::cross.
Cross(u, v) ==
    <<FSub(FMul(u[2], v[3]), FMul(u[3], v[2])),
      FSub(FMul(u[3], v[1]), FMul(u[1], v[3])),
      FSub(FMul(u[1], v[2]), FMul(u[2], v[1]))>>

\* glam's Vec3::normalize: the vector over its length, NaN when that is 0.
Normalize(n) ==
    LET len == VLength(n)
    IN <<FDiv(n[1], len), FDiv(n[2], len), FDiv(n[3], len)>>

\* The normal add_triangle computes at corner a of the triangle (a, b, c):
\* u = b - a, v = c - a.
CornerNormal(a, b, c) == Normalize(Cross(VSub(b, a), VSub(c, a)))

\* add_triangle pushing a normal for every corner, new or not.
HopfMeshBuilder_add_triangle_normal_per_corner(self, p0, p1, p2) ==
    LET a0 == HopfMeshBuilder_add_vertex(self, p0)
        a1 == HopfMeshBuilder_add_vertex(a0.self, p1)
        a2 == HopfMeshBuilder_add_vertex(a1.self, p2)
    IN [self |-> [a2.self EXCEPT
                     !.triangle_store =
                         @ \o <<a0.ret[2], a1.ret[2], a2.ret[2]>>,
                     !.normals_store =
                         @ \o <<CornerNormal(p0, p1, p2),
                                CornerNormal(p1, p2, p0),
                                CornerNormal(p2, p0, p1)>>],
        rets |-> <<a0.ret, a1.ret, a2.ret>>]

\* HopfMeshBuilder::add_triangle.  rets are what the three calls of
\* add_vertex returned.
HopfMeshBuilder_add_triangle(self, p0, p1, p2) ==
    LET a0 == HopfMeshBuilder_add_vertex(self, p0)
        a1 == HopfMeshBuilder_add_vertex(a0.self, p1)
        a2 == HopfMeshBuilder_add_vertex(a1.self, p2)
        n0 == IF a0.ret[1] THEN <<CornerNormal(p0, p1, p2)>> ELSE <<>>
        n1 == IF a1.ret[1] THEN <<CornerNormal(p1, p2, p0)>> ELSE <<>>
        n2 == IF a2.ret[1] THEN <<CornerNormal(p2, p0, p1)>> ELSE <<>>
    IN [self |-> [a2.self EXCEPT
                     !.triangle_store =
                         @ \o <<a0.ret[2], a1.ret[2], a2.ret[2]>>,
                     !.normals_store = @ \o n0 \o n1 \o n2],
        rets |-> <<a0.ret, a1.ret, a2.ret>>]

\* ------------------------------------------------------------------------
\* mesh::weave (lib/src/mesh.rs)
\* ------------------------------------------------------------------------

\* weave over 0..=n_loops, its end point included.
weave_inclusive(p1, p2, n_loops) ==
    [p1 |-> p1,
     lat_step |-> DivByCount(FSub(p2.lat, p1.lat), n_loops),
     long_step |-> DivByCount(FSub(p2.lon, p1.lon), n_loops),
     index |-> 0,
     n_loops |-> n_loops + 1]

\* weave returns an iterator: (0..n_loops).map(closure).  index is the
\* next element of the range.
weave(p1, p2, n_loops) ==
    [p1 |-> p1,
     lat_step |-> DivByCount(FSub(p2.lat, p1.lat), n_loops),
     long_step |-> DivByCount(FSub(p2.lon, p1.lon), n_loops),
     index |-> 0,
     n_loops |-> n_loops]

\* Iterator::next on it: the iterator afterwards and the item, if any.
WeaveNext(it) ==
    IF it.index >= it.n_loops
    THEN [it |-> it, some |-> FALSE]
    ELSE [it |-> [it EXCEPT !.index = @ + 1],
          some |-> TRUE,
          item |-> [lat |-> MulAdd(it.index, it.lat_step, it.p1.lat),
                    lon |-> MulAdd(it.index, it.long_step, it.p1.lon)]]

\* ------------------------------------------------------------------------
\* State
\* ------------------------------------------------------------------------

VARIABLES
    api,    \* the caller: which type's methods, or which function, it uses
    obj,    \* the Obj
    hmb,    \* the HopfMeshBuilder
    last,   \* the last call on a store: its name, arguments and return
    hist,   \* per vertex ever handed to add_vertex, what its first call returned
    called, \* the methods called on the store so far
    args,   \* the arguments of the call under way
    fb,     \* the frame of Fibre::build: see BuildEnter
    wv,     \* the iterator of weave and the seeds it has yielded
    ms      \* the frame of construct or of main

vars == <<api, obj, hmb, last, hist, called, args, fb, wv, ms>>

\* ------------------------------------------------------------------------
\* Inputs
\* ------------------------------------------------------------------------

\* An angle given in degrees, in units.
Deg(d) == d * (PI_U \div 180)

\* Seeds: the one of the tests of fibre.rs (5, 5), those of the binaries
\* (latitude 10), one on the southern half, one for which acos is handed a
\* value above 1, and one next to the north pole.
SeedPoints ==
    { [lat |-> Deg(5), lon |-> Deg(5)],
      [lat |-> Deg(10), lon |-> Deg(0)],
      [lat |-> Deg(10), lon |-> Deg(90)],
      [lat |-> Deg(-45), lon |-> Deg(5)],
      [lat |-> Deg(-80), lon |-> Deg(0)],
      [lat |-> Deg(90) - 10, lon |-> Deg(0)] }

\* Parameter ranges: the whole domain, its first half, and an empty one.
AlphaRanges ==
    { [start |-> 0, end |-> ALPHA_MAX],
      [start |-> 0, end |-> TAU_U],
      [start |-> 0, end |-> 0] }

\* NUM_TRIES of HopfMeshBuilder::construct, the n_tries of the tests.
NUM_TRIES == 2000

FibreBuildArgs ==
    [sp : SeedPoints,
     alpha : AlphaRanges,
     target_samples : 1 .. MaxSamples,
     n_tries : (0 .. MaxTries) \cup {NUM_TRIES}]

\* Vertices handed to the stores: the origin, the origin with x = -0.0, a
\* vertex of NaNs (what a fibre of a NaN parameter evaluates to) and a unit
\* vector; the triangles have a second unit vector.
ZeroVertex == <<0, 0, 0>>

UnitX == <<ONE, 0, 0>>

UnitY == <<0, ONE, 0>>

VertexPool == { ZeroVertex, <<NegZero, 0, 0>>, NaNVertex, UnitX }

\* Triangles handed to add_triangle: a proper one, the same one from its
\* second corner on, one with a corner twice, one with a corner three times
\* and one of corners that differ in their bits alone or are not numbers.
TrianglePool ==
    { <<ZeroVertex, UnitX, UnitY>>,
      <<UnitX, UnitY, ZeroVertex>>,
      <<ZeroVertex, UnitX, UnitX>>,
      <<UnitY, UnitY, UnitY>>,
      <<ZeroVertex, <<NegZero, 0, 0>>, NaNVertex>> }

\* format!("o object_{i}") of points2Obj_mesh.
ObjectName(i) == "o object_" \o ToString(i)

ObjectNames == { ObjectName(i) : i \in 0 .. MaxObjects - 1 }

QuadLists == { <<>>, << <<1, 2, 3, 4>> >> }

\* The values of the variables a specification does not use.
NoArgs == [none |-> TRUE]

NoCall == [op |-> "none"]

FibreIdle == [pc |-> "idle"]

WeaveIdle == [pc |-> "idle"]

MeshIdle == [pc |-> "idle"]

DefaultBuilder ==
    HopfMeshBuilder_new([lat |-> Deg(10), lon |-> 0],
                        [lat |-> Deg(10), lon |-> Deg(270)], 40, 27, NUM_TRIES)

StoresFresh ==
    /\ obj = ObjDefault
    /\ hmb = DefaultBuilder
    /\ last = NoCall
    /\ hist = <<>>
    /\ called = {}

\* ------------------------------------------------------------------------
\* The two vertex stores, method by method
\* ------------------------------------------------------------------------

\* hist once p has been handed to add_vertex and index came back.
Seen(h, p) == \E k \in 1 .. Len(h) : h[k].p = p

HistAdd(h, p, index) ==
    IF Seen(h, p) THEN h ELSE Append(h, [p |-> p, ret |-> index])

Init ==
    /\ api \in {"Obj", "HopfMeshBuilder"}
    /\ StoresFresh
    /\ args = NoArgs
    /\ fb = FibreIdle
    /\ wv = WeaveIdle
    /\ ms = MeshIdle

ObjAddVertex ==
    /\ api = "Obj"
    /\ \E p \in VertexPool :
          LET r == Obj_add_vertex(obj, p)
          IN /\ obj' = r.self
             /\ last' = [op |-> "add_vertex", p |-> p, ret |-> r.ret]
             /\ hist' = HistAdd(hist, p, r.ret)
    /\ called' = called \cup {"add_vertex"}
    /\ UNCHANGED <<api, hmb, args, fb, wv, ms>>

ObjPushQuads ==
    /\ api = "Obj"
    /\ \E name \in ObjectNames, quads \in QuadLists :
          /\ obj' = Obj_push_quads(obj, name, quads)
          /\ last' = [op |-> "push_quads", p |-> name, ret |-> quads]
    /\ called' = called \cup {"push_quads"}
    /\ UNCHANGED <<api, hmb, hist, args, fb, wv, ms>>

HmbAddVertex ==
    /\ api = "HopfMeshBuilder"
    /\ \E p \in VertexPool :
          LET r == HopfMeshBuilder_add_vertex(hmb, p)
          IN /\ hmb' = r.self
             /\ last' = [op |-> "add_vertex", p |-> p, ret |-> r.ret[2]]
             /\ hist' = HistAdd(hist, p, r.ret[2])
    /\ called' = called \cup {"add_vertex"}
    /\ UNCHANGED <<api, obj, args, fb, wv, ms>>

HmbAddTriangle ==
    /\ api = "HopfMeshBuilder"
    /\ Len(hmb.triangle_store) < 3 * MaxTriangles
    /\ \E t \in TrianglePool :
          LET r == HopfMeshBuilder_add_triangle(hmb, t[1], t[2], t[3])
          IN /\ hmb' = r.self
             /\ last' = [op |-> "add_triangle", p |-> t, ret |-> r.rets]
             /\ hist' = HistAdd(HistAdd(HistAdd(hist, t[1], r.rets[1][2]),
                                        t[2], r.rets[2][2]),
                                t[3], r.rets[3][2])
    /\ called' = called \cup {"add_triangle"}
    /\ UNCHANGED <<api, obj, args, fb, wv, ms>>

Next == ObjAddVertex \/ ObjPushQuads \/ HmbAddVertex \/ HmbAddTriangle

Spec == Init /\ [][Next]_vars

\* What the first add_vertex(p) returned.
FirstRet(h, p) == h[CHOOSE k \in 1 .. Len(h) : h[k].p = p].ret

\* C1 (dedup idempotence): in both stores, add_vertex of a vertex that is
\* bit-identical to one handed in before returns the index its first call
\* returned and leaves the store, the vertex buffer and next_index as they
\* were; the same holds of the three add_vertex calls inside add_triangle.
C1_DedupIdempotence ==
    [][ /\ (last'.op = "add_vertex" /\ Seen(hist, last'.p)) =>
              /\ last'.ret = FirstRet(hist, last'.p)
              /\ obj' = obj
              /\ hmb' = hmb
        /\ last'.op = "add_triangle" =>
              \A k \in 1 .. 3 :
                 /\ last'.ret[k][2] = FirstRet(hist', last'.p[k])
                 /\ Seen(hist, last'.p[k]) => ~last'.ret[k][1]
                 /\ (\A j \in 1 .. 3 : Seen(hist, last'.p[j])) =>
                        /\ hmb'.vertex_buffer = hmb.vertex_buffer
                        /\ hmb'.vertex_deduple = hmb.vertex_deduple
                        /\ hmb'.next_index = hmb.next_index ]_vars

\* A vertex of NaNs handed to the builder again after others were stored:
\* an index below the newest one came back.
C1_Witness ==
    /\ api = "HopfMeshBuilder"
    /\ last.op = "add_vertex"
    /\ last.p = NaNVertex
    /\ last.ret + 1 < hmb.next_index
    /\ Len(hmb.vertex_buffer) >= 3

\* C2 (dense indices in first-seen order): in an Obj the k-th distinct
\* vertex handed to add_vertex holds index k, no index is held twice and no
\* vertex holds two, the indices held are 1..n for n stored vertices, and
\* next_index = n + 1.
C2_DenseFirstSeenIndices ==
    api = "Obj" =>
        LET n == Cardinality(obj.vertex_store)
        IN /\ Len(hist) = n
           /\ \A k \in 1 .. Len(hist) : <<hist[k].p, k>> \in obj.vertex_store
           /\ \A e, f \in obj.vertex_store :
                 (e[1] = f[1] \/ e[2] = f[2]) => e = f
           /\ {e[2] : e \in obj.vertex_store} = 1 .. n
           /\ obj.next_index = n + 1

\* Every vertex of the pool is stored and an early one was handed in again.
C2_Witness ==
    /\ api = "Obj"
    /\ Cardinality(obj.vertex_store) = Cardinality(VertexPool)
    /\ last.op = "add_vertex"
    /\ last.ret = 2

\* C3 (vertex/normal parity): while add_triangle is the only method called
\* on a HopfMeshBuilder, and all through construct, which calls no other,
\* normals_store is as long as vertex_buffer.
C3_VertexNormalParity ==
    \/ api = "HopfMeshBuilder" /\ called \subseteq {"add_triangle"}
    \/ api = "construct"
    => Len(hmb.normals_store) = Len(hmb.vertex_buffer)

\* Two triangles were added that share vertices or repeat one.
C3_Witness ==
    /\ api = "HopfMeshBuilder"
    /\ called = {"add_triangle"}
    /\ Len(hmb.triangle_store) = 6
    /\ Len(hmb.vertex_buffer) \in 3 .. 5
    /\ Len(hmb.normals_store) = Len(hmb.vertex_buffer)

\* ------------------------------------------------------------------------
\* weave, seed by seed
\* ------------------------------------------------------------------------

RECURSIVE Factorial(_)
Factorial(n) == IF n <= 1 THEN 1 ELSE n * Factorial(n - 1)

\* The end points of the line of seeds lie on a lattice of angles that
\* every n_loops up to MaxLoops divides: the division by n_loops is exact
\* there, as it is for the 270 degrees and 27 loops of the binaries.
Lattice == Factorial(MaxLoops)

WeavePoints ==
    { [lat |-> a * Lattice, lon |-> b * Lattice] : a \in -1 .. 1, b \in 0 .. 2 }

WeaveArgs == [p1 : WeavePoints, p2 : WeavePoints, n_loops : 0 .. MaxLoops]

InitWeave ==
    /\ api = "weave"
    /\ StoresFresh
    /\ args \in WeaveArgs
    /\ fb = FibreIdle
    /\ wv = WeaveIdle
    /\ ms = MeshIdle

\* weave(&p1, &p2, n_loops) returns its iterator.
WeaveCall ==
    /\ wv.pc = "idle"
    /\ wv' = [pc |-> "iter",
              it |-> weave(args.p1, args.p2, args.n_loops),
              seeds |-> <<>>]
    /\ UNCHANGED <<api, obj, hmb, last, hist, called, args, fb, ms>>

\* The caller asks the iterator for its next seed.
WeaveYield ==
    /\ wv.pc = "iter"
    /\ LET r == WeaveNext(wv.it)
       IN wv' = IF r.some
                THEN [wv EXCEPT !.it = r.it, !.seeds = Append(@, r.item)]
                ELSE [wv EXCEPT !.pc = "done"]
    /\ UNCHANGED <<api, obj, hmb, last, hist, called, args, fb, ms>>

NextWeave == WeaveCall \/ WeaveYield

SpecWeave == InitWeave /\ [][NextWeave]_vars

InitFibre ==
    /\ api = "Fibre"
    /\ StoresFresh
    /\ args \in FibreBuildArgs
    /\ fb = FibreIdle
    /\ wv = WeaveIdle
    /\ ms = MeshIdle

\* Fibre::new(sp, alpha).build(target_samples, n_tries) is entered.
FibreBuildCall ==
    /\ fb.pc = "idle"
    /\ fb' = BuildEnter(FibreNew(args.sp, args.alpha),
                         args.target_samples, args.n_tries)
    /\ UNCHANGED <<api, obj, hmb, last, hist, called, args, wv, ms>>

\* One pass of 'adaptive_loop.
FibreBuildPass ==
    /\ fb.pc = "adaptive"
    /\ fb' = BuildPass(fb)
    /\ UNCHANGED <<api, obj, hmb, last, hist, called, args, wv, ms>>

\* What a call of build_uniform::<m> leaves behind: the fine table of
\* searchable_path_length (s), the coarse table of resample_fibre (r) and
\* the points and parameter values returned (u).
UniformFrame(s, r, u, m) ==
    IF s.panic \/ r.panic \/ u.panic THEN [pc |-> "panic"]
    ELSE [pc |-> "uniform",
          m |-> m,
          table |-> s.lut,
          coarse |-> r.lut,
          points |-> u.points,
          alphas |-> u.alphas,
          cursors |-> u.cursors]

BuildUniformEnter(self, m) ==
    UniformFrame(searchable_path_length(extract_settings(self), self.alpha,
                                        NDetailed),
                 resample_fibre(extract_settings(self), self.alpha,
                                NDetailed, m),
                 build_uniform(self, m), m)

\* Fibre::new(sp, alpha).build_uniform::<target_samples>() is called and
\* returns.
FibreBuildUniformCall ==
    /\ fb.pc = "idle"
    /\ fb' = BuildUniformEnter(FibreNew(args.sp, args.alpha),
                                args.target_samples)
    /\ UNCHANGED <<api, obj, hmb, last, hist, called, args, wv, ms>>

NextFibre == FibreBuildCall \/ FibreBuildPass \/ FibreBuildUniformCall

SpecFibre == InitFibre /\ [][NextFibre]_vars

\* C8 (projection singularity): a curve evaluation that meets the pole,
\* |1 - X3| < EPSILON, is reported to the caller of build as a returned
\* error: the call never unwinds with a panic.
C8_SingularityReturnedAsError == fb.pc # "panic"

\* C9 (resample count): over the full domain [0, 4 pi] and over the
\* sub-range [0, 2 pi], build(target_samples = N, n_tries) that returns Ok
\* returns exactly N points and exactly N parameter values.
C9_ResampleCount ==
    (fb.pc = "ok" /\ args.alpha.end \in {ALPHA_MAX, TAU_U}) =>
        /\ Len(fb.points) = fb.target_samples
        /\ Len(fb.alphas) = fb.target_samples

\* C10 (retry bound): build accepts a point after at most n_tries rejected
\* candidates (i counts the candidates rejected for the point under way),
\* goes on adjusting the step only while no more than n_tries candidates
\* were rejected, and returns Err with no points.
C10_RetryBound ==
    [][ fb.pc = "adaptive" =>
          /\ Len(fb'.points) > Len(fb.points) => fb.i <= fb.n_tries
          /\ (fb'.pc = "adaptive" /\ Len(fb'.points) = Len(fb.points)) =>
                 fb'.i <= fb.n_tries
          /\ fb'.pc = "err" => (fb'.points = <<>> /\ fb'.alphas = <<>>) ]_vars

\* C11 (ordering of the adaptive output): the parameter values build has
\* pushed are strictly increasing; while build is in its loops all of them
\* are below the end of the range, and when it returns Ok all but the last
\* are below the end and the last has reached it.
C11_AdaptiveOrdering ==
    fb.pc \in {"adaptive", "ok"} =>
        LET a == fb.alphas
            n == Len(a)
        IN /\ \A k \in 1 .. n - 1 : a[k] < a[k + 1]
           /\ \A k \in 1 .. n - 1 : a[k] < fb.alpha_end
           /\ fb.pc = "adaptive" => \A k \in 1 .. n : a[k] < fb.alpha_end
           /\ fb.pc = "ok" => (n >= 1 /\ a[n] >= fb.alpha_end)

\* C12 (degenerate domain): over a parameter range of length zero neither
\* build nor build_uniform returns sample points; each fails with an error.
C12_DegenerateDomainError ==
    (api = "Fibre" /\ args.alpha.start = args.alpha.end) =>
        fb.pc \notin {"ok", "uniform"}

\* build has returned Ok with three points or more, none of them NaN,
\* over a range that is not empty.
C11_Witness ==
    /\ api = "Fibre"
    /\ fb.pc = "ok"
    /\ Len(fb.alphas) >= 3
    /\ fb.alpha_end > 0
    /\ \A k \in 1 .. Len(fb.points) : ~HasNaN(fb.points[k])

\* C13 (lookup-table monotonicity): in the table of searchable_path_length
\* the first entry is (start of the range, 0) and from each entry to the
\* next neither the parameter nor the cumulative length decreases.
C13_TableMonotone ==
    fb.pc = "uniform" =>
        LET t == fb.table
        IN /\ t[1] = <<args.alpha.start, 0>>
           /\ \A k \in 1 .. Len(t) - 1 :
                 /\ FGe(t[k + 1][1], t[k][1])
                 /\ FGe(t[k + 1][2], t[k][2])

\* The target distance of slot i (from 1) of resample_fibre, and the
\* positions of the fine table whose cumulative length has reached it.
ResampleTarget(i) ==
    Times(i - 1, DivByCount(fb.table[Len(fb.table)][2], fb.m - 1))

ResampleQualifying(i) ==
    {k \in 1 .. Len(fb.table) : FGe(fb.table[k][2], ResampleTarget(i))}

\* The target distance of slot i (from 1) of build_uniform, and the
\* positions of the coarse table whose cumulative length has reached it.
UniformTarget(i) ==
    Times(i - 1, DivByCount(fb.coarse[fb.m][2], fb.m))

UniformQualifying(i) ==
    {k \in 1 .. fb.m : FGe(fb.coarse[k][2], UniformTarget(i))}

\* C14 (lookup-table inversion): for two output slots or more, slot i of
\* resample_fibre is the first entry of the table whose cumulative length
\* is at least i * (total / (N_out - 1)), taken as it is; slot 0 holds the
\* start of the range and the parameters do not decrease from slot to slot.
C14_TableInversion ==
    (fb.pc = "uniform" /\ fb.m >= 2) =>
        /\ \A i \in 1 .. fb.m :
              ResampleQualifying(i) # {} =>
                 \E k \in ResampleQualifying(i) :
                    /\ \A j \in ResampleQualifying(i) : k <= j
                    /\ fb.coarse[i] = fb.table[k]
        /\ fb.coarse[1][1] = args.alpha.start
        /\ \A i \in 1 .. fb.m - 1 : FGe(fb.coarse[i + 1][1], fb.coarse[i][1])

\* C15 (unresolved endpoint): a slot of resample_fibre whose target no
\* entry of the table reaches holds the last entry when the deficit is
\* below 1e-3 and (NaN, NaN) otherwise; a slot of build_uniform whose
\* target no entry of the coarse table reaches holds a NaN parameter and a
\* NaN point, not the point of the slot before.
C15_UnresolvedEndpoint ==
    fb.pc = "uniform" =>
        /\ \A i \in 1 .. fb.m :
              ResampleQualifying(i) = {} =>
                 LET tail == fb.table[Len(fb.table)]
                 IN IF FLt(Abs(FSub(tail[2], ResampleTarget(i))), EndpointSlack)
                    THEN fb.coarse[i] = tail
                    ELSE fb.coarse[i] = <<NaN, NaN>>
        /\ \A i \in 1 .. fb.m :
              UniformQualifying(i) = {} =>
                 (IsNaN(fb.alphas[i]) /\ HasNaN(fb.points[i]))

\* build_uniform has returned for a fibre of numbers; the last target of
\* resample_fibre lay above the whole table, within the tolerance, and the
\* slot holds the last entry.
C15_Witness ==
    /\ api = "Fibre"
    /\ fb.pc = "uniform"
    /\ fb.m >= 2
    /\ ~IsNaN(fb.table[1][2])
    /\ ResampleQualifying(fb.m) = {}
    /\ fb.coarse[fb.m] = fb.table[Len(fb.table)]

\* C18 (periodicity): for every seed of latitude strictly between -pi/2
\* and pi/2 and longitude in [0, 2 pi] the fibre is closed: the distance
\* from curve(0) to curve(4 pi) is below 1e-5, which at the resolution of
\* the model is below one unit.
C18_Periodicity ==
    (/\ api = "Fibre"
     /\ fb.pc # "idle"
     /\ Abs(args.sp.lat) < FRAC_PI_2_U
     /\ args.sp.lon \in 0 .. TAU_U) =>
        LET settings == extract_settings(FibreNew(args.sp, args.alpha))
            f_0 == FibreAt(settings, 0)
            f_4pi == FibreAt(settings, ALPHA_MAX)
        IN /\ ~IsPanic(f_0)
           /\ ~IsPanic(f_4pi)
           /\ FLt(Distance(f_0, f_4pi), 1)

\* ------------------------------------------------------------------------
\* HopfMeshBuilder::construct (bevy_hopf/src/hopf.rs), fibre by fibre
\* ------------------------------------------------------------------------

\* The loop of construct with the first triangle of each quad alone.
RECURSIVE QuadLoop_one_triangle(_, _, _, _, _)
QuadLoop_one_triangle(self, points_last, points, i, n) ==
    IF i >= n THEN [self |-> self, panic |-> FALSE]
    ELSE IF i + 1 > Len(points_last) \/ i + 1 > Len(points)
         THEN [self |-> self, panic |-> TRUE]
    ELSE LET p0 == points_last[i]
             p1 == points_last[i + 1]
             p3 == points[i]
         IN QuadLoop_one_triangle(
                HopfMeshBuilder_add_triangle(self, p0, p1, p3).self,
                points_last, points, i + 1, n)

\* The loop of construct with the quad cut along its other diagonal:
\* triangles (0, 1, 2) and (0, 2, 3).
RECURSIVE QuadLoop_other_diagonal(_, _, _, _, _)
QuadLoop_other_diagonal(self, points_last, points, i, n) ==
    IF i >= n THEN [self |-> self, panic |-> FALSE]
    ELSE IF i + 1 > Len(points_last) \/ i + 1 > Len(points)
         THEN [self |-> self, panic |-> TRUE]
    ELSE LET p0 == points_last[i]
             p1 == points_last[i + 1]
             p2 == points[i + 1]
             p3 == points[i]
         IN QuadLoop_other_diagonal(
                HopfMeshBuilder_add_triangle(
                    HopfMeshBuilder_add_triangle(self, p0, p1, p2).self,
                    p0, p2, p3).self,
                points_last, points, i + 1, n)

\* The loop `for i in 1..n_points_per_loop` of construct from i on.  An
\* index past the end of points_last or of points panics; what the earlier
\* rounds added stays in the builder.
RECURSIVE QuadLoop(_, _, _, _, _)
QuadLoop(self, points_last, points, i, n) ==
    IF i >= n THEN [self |-> self, panic |-> FALSE]
    ELSE IF i + 1 > Len(points_last) \/ i + 1 > Len(points)
         THEN [self |-> self, panic |-> TRUE]
    ELSE LET p0 == points_last[i]
             p1 == points_last[i + 1]
             p2 == points[i + 1]
             p3 == points[i]
         IN QuadLoop(HopfMeshBuilder_add_triangle(
                         HopfMeshBuilder_add_triangle(self, p0, p1, p3).self,
                         p1, p2, p3).self,
                     points_last, points, i + 1, n)

\* Lines of seeds given to the builder: the one of the binaries (latitude
\* 10, longitude 0 to 270), a line from the southern half to the northern,
\* a line that starts where it ends, and one next to the north pole.
SeedLines ==
    { [line_start |-> [lat |-> Deg(10), lon |-> Deg(0)],
       line_end |-> [lat |-> Deg(10), lon |-> Deg(270)]],
      [line_start |-> [lat |-> Deg(-45), lon |-> Deg(5)],
       line_end |-> [lat |-> Deg(45), lon |-> Deg(95)]],
      [line_start |-> [lat |-> Deg(10), lon |-> Deg(90)],
       line_end |-> [lat |-> Deg(10), lon |-> Deg(90)]],
      [line_start |-> [lat |-> Deg(90) - 10, lon |-> Deg(0)],
       line_end |-> [lat |-> Deg(10), lon |-> Deg(0)]] }

\* debug: whether the build keeps debug_assert_eq!.
ConstructArgs ==
    [line : SeedLines,
     n_loops : 0 .. MaxLoops,
     n_points_per_loop : 1 .. MaxSamples,
     debug : BOOLEAN]

\* The arguments of main: it takes none.
MainArgs == [main |-> TRUE]

InitMesh ==
    /\ \/ /\ api = "construct"
          /\ args \in ConstructArgs
          /\ hmb = HopfMeshBuilder_new(args.line.line_start, args.line.line_end,
                                       args.n_points_per_loop, args.n_loops,
                                       NUM_TRIES)
       \/ /\ api = "main"
          /\ args = MainArgs
          /\ hmb = DefaultBuilder
    /\ obj = ObjDefault
    /\ last = NoCall
    /\ hist = <<>>
    /\ called = {}
    /\ fb = FibreIdle
    /\ wv = WeaveIdle
    /\ ms = MeshIdle

\* construct is entered: weave is called and the frame set up.  curves are
\* the point lists of the fibres built so far, in order; finalized tells
\* that an earlier call on this builder has returned the mesh.
ConstructCall ==
    /\ api = "construct"
    /\ ms.pc = "idle"
    /\ ms' = [pc |-> "next",
              it |-> weave(hmb.hopf.line_start, hmb.hopf.line_end,
                           hmb.hopf.n_loops),
              first |-> TRUE,
              seed |-> hmb.hopf.line_start,
              points_last |-> <<>>,
              curves |-> <<>>,
              error |-> "none",
              finalized |-> FALSE]
    /\ UNCHANGED <<api, obj, hmb, last, hist, called, args, fb, wv>>

\* construct is entered once more on the builder that has returned the
\* mesh: it takes &mut self and the builder is still the caller's.
ConstructCallAgain ==
    /\ api = "construct"
    /\ ms.pc = "ok"
    /\ ms' = [ms EXCEPT !.pc = "next",
                        !.it = weave(hmb.hopf.line_start, hmb.hopf.line_end,
                                     hmb.hopf.n_loops),
                        !.first = TRUE,
                        !.seed = hmb.hopf.line_start,
                        !.points_last = <<>>,
                        !.curves = <<>>]
    /\ UNCHANGED <<api, obj, hmb, last, hist, called, args, fb, wv>>

\* add_triangle, a public method, is called on the builder that has
\* returned the mesh.
ConstructAddTriangleAfter ==
    /\ api = "construct"
    /\ ms.pc = "ok"
    /\ \E t \in TrianglePool :
          hmb' = HopfMeshBuilder_add_triangle(hmb, t[1], t[2], t[3]).self
    /\ ms' = [ms EXCEPT !.pc = "added"]
    /\ UNCHANGED <<api, obj, last, hist, called, args, fb, wv>>

\* weave.next(): the first one returns LineError when there is no seed;
\* a later one ends the loop, and construct returns the mesh ("ok" for the
\* first call on the builder, "ok_again" for the second).
ConstructNextSeed ==
    /\ api = "construct"
    /\ ms.pc = "next"
    /\ LET r == WeaveNext(ms.it)
       IN IF r.some
          THEN /\ ms' = [ms EXCEPT !.pc = "build", !.it = r.it, !.seed = r.item]
               /\ fb' = BuildEnter(FibreNew(r.item,
                                            [start |-> 0, end |-> ALPHA_MAX]),
                                   hmb.hopf.n_points_per_loop, NUM_TRIES)
          ELSE /\ ms' = IF ms.first
                        THEN [ms EXCEPT !.pc = "err", !.error = "LineError"]
                        ELSE IF ms.finalized
                        THEN [ms EXCEPT !.pc = "ok_again"]
                        ELSE [ms EXCEPT !.pc = "ok", !.finalized = TRUE]
               /\ fb' = fb
    /\ UNCHANGED <<api, obj, hmb, last, hist, called, args, wv>>

\* One pass of 'adaptive_loop of the build under way.
ConstructBuildPass ==
    /\ api = "construct"
    /\ ms.pc = "build"
    /\ fb.pc = "adaptive"
    /\ fb' = BuildPass(fb)
    /\ UNCHANGED <<api, obj, hmb, last, hist, called, args, wv, ms>>

\* build has returned Err, or has panicked.
ConstructBuildFailed ==
    /\ api = "construct"
    /\ ms.pc = "build"
    /\ fb.pc \in {"err", "panic"}
    /\ ms' = IF fb.pc = "err"
             THEN [ms EXCEPT !.pc = "err", !.error = "NRetriesExceeded"]
             ELSE [ms EXCEPT !.pc = "panic"]
    /\ fb' = FibreIdle
    /\ UNCHANGED <<api, obj, hmb, last, hist, called, args, wv>>

\* build has returned Ok for the first seed: its points are points_last.
ConstructFirstFibre ==
    /\ api = "construct"
    /\ ms.pc = "build"
    /\ fb.pc = "ok"
    /\ ms.first
    /\ ms' = [ms EXCEPT !.pc = "next", !.first = FALSE,
                        !.points_last = fb.points,
                        !.curves = Append(@, fb.points)]
    /\ fb' = FibreIdle
    /\ UNCHANGED <<api, obj, hmb, last, hist, called, args, wv>>

\* build has returned Ok for a later seed: the body of `for (lat, lon) in
\* weave` after the build.
ConstructQuads ==
    /\ api = "construct"
    /\ ms.pc = "build"
    /\ fb.pc = "ok"
    /\ ~ms.first
    /\ IF args.debug /\ Len(fb.points) # hmb.hopf.n_points_per_loop
       THEN /\ ms' = [ms EXCEPT !.pc = "panic"]
            /\ hmb' = hmb
       ELSE \E r \in {QuadLoop(hmb, ms.points_last, fb.points, 1,
                                hmb.hopf.n_points_per_loop)} :
               /\ hmb' = r.self
               /\ ms' = IF r.panic
                        THEN [ms EXCEPT !.pc = "panic"]
                        ELSE [ms EXCEPT !.pc = "next",
                                        !.points_last = fb.points,
                                        !.curves = Append(@, fb.points)]
    /\ fb' = FibreIdle
    /\ UNCHANGED <<api, obj, last, hist, called, args, wv>>

\* ------------------------------------------------------------------------
\* main of points2Obj_mesh, seed by seed
\* ------------------------------------------------------------------------

\* The latitudes of the three shells of main.
ShellLats == <<Deg(10), Deg(20), Deg(30)>>

\* weave(&start, &end, 27) and NUM_POINTS_PER_LOOP = 40 in main; the model
\* takes the largest numbers of loops and of samples of its bounds.
MAIN_N_LOOPS == MaxLoops

NUM_POINTS_PER_LOOP == MaxSamples

\* meshes: the iterators main collects before its loop.
MainMeshes ==
    [k \in 1 .. Len(ShellLats) |->
        weave([lat |-> ShellLats[k], lon |-> 0],
              [lat |-> ShellLats[k], lon |-> Deg(270)], MAIN_N_LOOPS)]

\* The loop `for i in 1..NUM_POINTS_PER_LOOP` of main from i on: the Obj
\* and the list of quads afterwards.
RECURSIVE MainQuadLoop(_, _, _, _, _, _)
MainQuadLoop(self, quads, points_last, points, i, n) ==
    IF i >= n THEN [self |-> self, quads |-> quads]
    ELSE LET a0 == Obj_add_vertex(self, points_last[i])
             a1 == Obj_add_vertex(a0.self, points_last[i + 1])
             a2 == Obj_add_vertex(a1.self, points[i + 1])
             a3 == Obj_add_vertex(a2.self, points[i])
         IN MainQuadLoop(a3.self,
                         Append(quads, <<a0.ret, a1.ret, a2.ret, a3.ret>>),
                         points_last, points, i + 1, n)

\* The half of the domain main builds its fibres over.
MainAlpha == [start |-> 0, end |-> TAU_U]

\* main up to its loop over the meshes.  i is the number of the mesh under
\* way; curves lists, mesh by mesh, the point lists of its fibres.
MainStart ==
    /\ api = "main"
    /\ ms.pc = "idle"
    /\ obj' = ObjDefault
    /\ ms' = [pc |-> "mesh", i |-> 0, meshes |-> MainMeshes,
              it |-> MainMeshes[1], points_last |-> <<>>, quads |-> <<>>,
              curves |-> <<>>, out |-> <<>>]
    /\ UNCHANGED <<api, hmb, last, hist, called, args, fb, wv>>

\* The head of the loop over the meshes: the first seed, which main expects
\* to be there, and its fibre.
MainFirstFibre ==
    /\ api = "main"
    /\ ms.pc = "mesh"
    /\ ms.i < Len(ms.meshes)
    /\ \E r \in {WeaveNext(ms.meshes[ms.i + 1])},
          b \in {build_uniform(FibreNew(WeaveNext(ms.meshes[ms.i + 1]).item,
                                        MainAlpha), NUM_POINTS_PER_LOOP)} :
          ms' = IF ~r.some THEN [ms EXCEPT !.pc = "panic"]
                ELSE IF b.panic THEN [ms EXCEPT !.pc = "panic"]
                ELSE [ms EXCEPT !.pc = "seeds", !.it = r.it,
                                !.points_last = b.points, !.quads = <<>>,
                                !.curves = Append(@, <<b.points>>)]
    /\ UNCHANGED <<api, obj, hmb, last, hist, called, args, fb, wv>>

\* One round of `for sp in seed_iter`.
MainSeed ==
    /\ api = "main"
    /\ ms.pc = "seeds"
    /\ WeaveNext(ms.it).some
    /\ \E r \in {WeaveNext(ms.it)},
          b \in {build_uniform(FibreNew(WeaveNext(ms.it).item, MainAlpha),
                               NUM_POINTS_PER_LOOP)} :
          IF b.panic
          THEN /\ ms' = [ms EXCEPT !.pc = "panic"]
               /\ obj' = obj
          ELSE IF Len(b.points) # NUM_POINTS_PER_LOOP
          THEN /\ ms' = [ms EXCEPT !.pc = "panic"]
               /\ obj' = obj
          ELSE LET q == MainQuadLoop(obj, ms.quads, ms.points_last, b.points,
                                     1, NUM_POINTS_PER_LOOP)
               IN /\ obj' = q.self
                  /\ ms' = [ms EXCEPT
                               !.it = r.it,
                               !.points_last = b.points,
                               !.quads = q.quads,
                               !.curves[ms.i + 1] = Append(@, b.points)]
    /\ UNCHANGED <<api, hmb, last, hist, called, args, fb, wv>>

\* The seeds of the mesh are used up: its quads are pushed under its name.
MainPushQuads ==
    /\ api = "main"
    /\ ms.pc = "seeds"
    /\ ~WeaveNext(ms.it).some
    /\ obj' = Obj_push_quads(obj, ObjectName(ms.i), ms.quads)
    /\ ms' = [ms EXCEPT !.pc = "mesh", !.i = @ + 1]
    /\ UNCHANGED <<api, hmb, last, hist, called, args, fb, wv>>

\* The vertex lines Obj::write puts out: the stored vertices in the order
\* of their indices.
RECURSIVE SortedByIndex(_)
SortedByIndex(store) ==
    IF store = {} THEN <<>>
    ELSE LET e == CHOOSE x \in store : \A y \in store : x[2] <= y[2]
         IN <<e[1]>> \o SortedByIndex(store \ {e})

\* obj.write(&mut writer): the vertex lines, then the objects in the order
\* the HashMap iterates them.
MainWrite ==
    /\ api = "main"
    /\ ms.pc = "mesh"
    /\ ms.i = Len(ms.meshes)
    /\ \E order \in [1 .. Cardinality(obj.quad_store) -> obj.quad_store] :
          /\ \A j, k \in DOMAIN order : order[j] = order[k] => j = k
          /\ ms' = [ms EXCEPT !.pc = "done",
                              !.out = [v |-> SortedByIndex(obj.vertex_store),
                                       o |-> order]]
    /\ obj' = [obj EXCEPT !.vertex_store = {}]
    /\ UNCHANGED <<api, hmb, last, hist, called, args, fb, wv>>

NextMesh ==
    \/ ConstructCall
    \/ ConstructCallAgain
    \/ ConstructAddTriangleAfter
    \/ ConstructNextSeed
    \/ ConstructBuildPass
    \/ ConstructBuildFailed
    \/ ConstructFirstFibre
    \/ ConstructQuads
    \/ MainStart
    \/ MainFirstFibre
    \/ MainSeed
    \/ MainPushQuads
    \/ MainWrite

SpecMesh == InitMesh /\ [][NextMesh]_vars

\* The index construct's builder holds for vertex p.
BuilderIndex(p) == MapGet(hmb.vertex_deduple, p)

\* The index main's Obj holds for vertex p.
ObjIndex(p) == MapGet(obj.vertex_store, p)

\* The list of quads main pushed under a name.
QuadsOf(name) == (CHOOSE e \in obj.quad_store : e[1] = name)[2]

\* C4 (triangle count): construct that returns the mesh of L fibres of P
\* points has emitted exactly (L - 1) * (P - 1) * 2 triangles, three
\* indices each, and at most L * P vertices.
C4_TriangleCount ==
    (api = "construct" /\ ms.pc = "ok") =>
        LET L == hmb.hopf.n_loops
            P == hmb.hopf.n_points_per_loop
        IN /\ Len(ms.curves) = L
           /\ Len(hmb.triangle_store) = 3 * ((L - 1) * (P - 1) * 2)
           /\ Len(hmb.vertex_buffer) <= L * P

\* construct has returned the mesh of three fibres of four points.
C4_Witness ==
    /\ api = "construct"
    /\ ms.pc = "ok"
    /\ hmb.hopf.n_loops = 3
    /\ hmb.hopf.n_points_per_loop = 4
    /\ Len(hmb.triangle_store) = 36
    /\ \A c \in 1 .. 3 : Len(ms.curves[c]) = 4

\* C5 (quad topology): for consecutive fibres prev and curr, in the order
\* built, and for i = 1 .. P - 1 in increasing order, the quad is
\* p0 = prev[i-1], p1 = prev[i], p2 = curr[i], p3 = curr[i-1]; construct
\* has stored it as the triangles (p0, p1, p3), (p1, p2, p3) and main as
\* the quadruple [i0, i1, i2, i3], and nothing else is stored.
C5_QuadTopology ==
    /\ (api = "construct" /\ ms.pc = "ok") =>
          LET P == hmb.hopf.n_points_per_loop
              C == ms.curves
              ts == hmb.triangle_store
          IN /\ Len(ts) = 6 * ((Len(C) - 1) * (P - 1))
             /\ \A c \in 2 .. Len(C), i \in 1 .. P - 1 :
                   LET base == 6 * ((c - 2) * (P - 1) + (i - 1))
                       p0 == C[c - 1][i]
                       p1 == C[c - 1][i + 1]
                       p2 == C[c][i + 1]
                       p3 == C[c][i]
                   IN <<ts[base + 1], ts[base + 2], ts[base + 3],
                        ts[base + 4], ts[base + 5], ts[base + 6]>>
                      = <<BuilderIndex(p0), BuilderIndex(p1), BuilderIndex(p3),
                          BuilderIndex(p1), BuilderIndex(p2), BuilderIndex(p3)>>
    /\ (api = "main" /\ ms.pc = "mesh") =>
          \A m \in 1 .. ms.i :
             LET P == NUM_POINTS_PER_LOOP
                 C == ms.curves[m]
                 Q == QuadsOf(ObjectName(m - 1))
             IN /\ Len(Q) = (Len(C) - 1) * (P - 1)
                /\ \A c \in 2 .. Len(C), i \in 1 .. P - 1 :
                      Q[(c - 2) * (P - 1) + i]
                      = <<ObjIndex(C[c - 1][i]), ObjIndex(C[c - 1][i + 1]),
                          ObjIndex(C[c][i + 1]), ObjIndex(C[c][i])>>

\* construct has returned the mesh of three fibres of four points whose
\* twelve points differ: eighteen triangles over twelve vertices.
C5_Witness ==
    /\ api = "construct"
    /\ ms.pc = "ok"
    /\ Len(ms.curves) = 3
    /\ hmb.hopf.n_points_per_loop = 4
    /\ Len(hmb.vertex_buffer) = 12
    /\ Len(hmb.triangle_store) = 36

\* C7 (degenerate seed range): construct on a line that starts where it
\* ends returns LineError.
C7_DegenerateRangeSignalled ==
    (/\ api = "construct"
     /\ ms.pc \in {"ok", "err", "panic"}
     /\ hmb.hopf.line_start = hmb.hopf.line_end) =>
        (ms.pc = "err" /\ ms.error = "LineError")

\* C16 (no triangles after finalization): once construct has returned the
\* mesh, no step adds to triangle_store, vertex_buffer or normals_store of
\* the builder.
C16_NoTrianglesAfterFinalization ==
    [][ (api = "construct" /\ ms.pc # "idle" /\ ms.finalized) =>
           /\ hmb'.triangle_store = hmb.triangle_store
           /\ hmb'.vertex_buffer = hmb.vertex_buffer
           /\ hmb'.normals_store = hmb.normals_store ]_vars

\* C17 (finalization requires a non-empty vertex buffer): construct does
\* not return the mesh with an empty vertex buffer, and not at all for a
\* single seed.
C17_NonEmptyVertexBuffer ==
    (api = "construct" /\ ms.pc = "ok") =>
        /\ Len(hmb.vertex_buffer) > 0
        /\ hmb.hopf.n_loops # 1

\* C19 (determinism of a sequential build): main, which feeds the same
\* vertices and quad lists in the same order in every run, writes the same
\* records in every run: the vertices by index, then the objects one way
\* only, taken here to be the order they were pushed in.
C19_DeterministicOutput ==
    (api = "main" /\ ms.pc = "done") =>
        /\ \A k \in 1 .. Len(ms.out.v) - 1 : ms.out.v[k] # ms.out.v[k + 1]
        /\ \A k \in 1 .. Len(ms.out.o) : ms.out.o[k][1] = ObjectName(k - 1)

\* The element at position pos of a Vec, positions counted from 0 as a Vec
\* and an index buffer count them.
VecAt(buffer, pos) == buffer[pos + 1]

\* The normal add_triangle computes at corner k of the triangle t.
NormalAtCorner(t, k) ==
    CASE k = 1 -> CornerNormal(t[1], t[2], t[3])
      [] k = 2 -> CornerNormal(t[2], t[3], t[1])
      [] k = 3 -> CornerNormal(t[3], t[1], t[2])

\* C20 (index buffer validity): after any sequence of add_triangle calls on
\* a HopfMeshBuilder every index in triangle_store is a position of
\* vertex_buffer, the vertex at that position is the one add_vertex returned
\* the index for, and normals_store holds at that position the normal that
\* was computed for the vertex when add_triangle first saw it.
C20_IndexBufferValidity ==
    (api = "HopfMeshBuilder" /\ called \subseteq {"add_triangle"}) =>
        /\ \A k \in 1 .. Len(hmb.triangle_store) :
              LET index == hmb.triangle_store[k]
              IN /\ index < Len(hmb.vertex_buffer)
                 /\ BuilderIndex(VecAt(hmb.vertex_buffer, index)) = index
                 /\ index < Len(hmb.normals_store)
        /\ last.op = "add_triangle" =>
              \A k \in 1 .. 3 :
                 last.ret[k][1] =>
                    VecAt(hmb.normals_store, last.ret[k][2]) =
                        NormalAtCorner(last.p, k)

\* front is the beginning of whole.
IsPrefix(front, whole) ==
    /\ Len(front) <= Len(whole)
    /\ \A j \in 1 .. Len(front) : whole[j] = front[j]

\* Where p sits in the vertex buffer, counted from 1.
BufferSlot(buffer, p) == CHOOSE j \in 1 .. Len(buffer) : buffer[j] = p

\* The corners of the triangle t whose add_vertex reported a new vertex.
NewCorners(rets) == {k \in 1 .. 3 : rets[k][1]}

\* C21 (normals are written once): an add_triangle appends, for each corner
\* whose vertex it introduces, the normalized cross product of its two edges
\* at that corner, and the normal lands where the vertex sits in
\* vertex_buffer; a corner that reuses a vertex appends nothing, and the
\* indices, the vertex buffer entries and the normals stored before the call
\* are all left as they were.
C21_NormalsWrittenOnce ==
    [][ (api = "HopfMeshBuilder" /\ last'.op = "add_triangle") =>
           /\ hmb.vertex_deduple \subseteq hmb'.vertex_deduple
           /\ IsPrefix(hmb.vertex_buffer, hmb'.vertex_buffer)
           /\ IsPrefix(hmb.normals_store, hmb'.normals_store)
           /\ Len(hmb'.normals_store) =
                  Len(hmb.normals_store) + Cardinality(NewCorners(last'.ret))
           /\ \A k \in NewCorners(last'.ret) :
                 LET slot == BufferSlot(hmb'.vertex_buffer, last'.p[k])
                 IN /\ slot <= Len(hmb'.normals_store)
                    /\ hmb'.normals_store[slot] = NormalAtCorner(last'.p, k)
      ]_vars

\* d lies in the band [distance_min, distance_max] of the build b.
InBand(b, d) == FGe(d, b.distance_min) /\ FGe(b.distance_max, d)

\* The point the k-th returned point of the build b is measured from: the
\* point at the start of the domain for the first, the one before it after.
Predecessor(b, alpha_start, k) ==
    IF k = 1 THEN FibreAt(b.settings, alpha_start) ELSE b.points[k - 1]

\* C22 (acceptance rule of the adaptive loop): a pass of Fibre::build
\* accepts its candidate exactly when the chord from the last accepted
\* point to the candidate lies within [target - delta, target + delta] or
\* the candidate's parameter is >= the end of the domain; hence every
\* returned point but the final one is within that band of its predecessor.
C22_AcceptanceRule ==
    [][ (api = "Fibre" /\ fb.pc = "adaptive" /\ fb'.pc # "panic") =>
           LET alpha == fb.alpha_last + fb.step
               d == Distance(fb.f_last, FibreAt(fb.settings, alpha))
           IN /\ (Len(fb'.points) = Len(fb.points) + 1) <=>
                     (InBand(fb, d) \/ alpha >= fb.alpha_end)
              /\ fb'.pc = "ok" =>
                     \A k \in 1 .. Len(fb'.points) - 1 :
                        InBand(fb', Distance(Predecessor(fb', args.alpha.start, k),
                                             fb'.points[k]))
      ]_vars

\* C23 (initial step size): on entry to the loops of Fibre::build, before
\* any pass has adjusted it, the step is domain_length / N with
\* domain_length = alpha.end - alpha.start of the fibre being built, for the
\* full domain and for every sub-range alike.
C23_InitialStep ==
    (/\ api = "Fibre"
     /\ fb.pc = "adaptive"
     /\ fb.points = <<>>
     /\ fb.i = 0) =>
        fb.step = RDiv(args.alpha.end - args.alpha.start, args.target_samples)

\* C24 (monotonic search cursor): in build_uniform last_match never
\* decreases from one lookup to the next, and after a lookup that matched
\* it is the position in the whole table of the entry matched.
C24_MonotonicCursor ==
    (api = "Fibre" /\ fb.pc = "uniform") =>
        /\ \A i \in 1 .. fb.m - 1 :
              fb.cursors[i + 1].last_match >= fb.cursors[i].last_match
        /\ \A i \in 1 .. fb.m :
              fb.cursors[i].found =>
                 fb.cursors[i].last_match = fb.cursors[i].matched

\* ------------------------------------------------------------------------
\* The lookups of Fibre::build_uniform over any table
\* ------------------------------------------------------------------------

\* Largest table and largest cumulative length, in units of CursorUnit.
MaxCursorSlots == 4

MaxCursorDist == 4

\* Half a unit of length, and the parameter step from entry to entry.
CursorUnit == ONE \div 2

CursorAlphaStep == PI_U \div 6

\* The tables [(f32, f32); M] that are non-decreasing in cumulative length:
\* entry k (from 1) holds the parameter (k - 1) * CursorAlphaStep.
CursorTables ==
    UNION { { [k \in 1 .. m |-> <<(k - 1) * CursorAlphaStep, d[k] * CursorUnit>>] :
              d \in { e \in [1 .. m -> 0 .. MaxCursorDist] :
                        \A k \in 1 .. m - 1 : e[k] <= e[k + 1] } } :
            m \in 2 .. MaxCursorSlots }

\* The fibre the lookups evaluate: the seed of main.
CursorSeed == [lat |-> PI_U \div 18, lon |-> PI_U \div 2]

InitCursor ==
    /\ api = "build_uniform"
    /\ StoresFresh
    /\ args \in [lut : CursorTables]
    /\ fb = FibreIdle
    /\ wv = WeaveIdle
    /\ ms = MeshIdle

\* The map of build_uniform::<M> runs over the table lut, M its length.
CursorLookups ==
    /\ fb.pc = "idle"
    /\ \E r \in {[panic |-> FALSE, lut |-> args.lut]} :
          fb' = UniformFrame(r, r,
                             UniformFromTable(
                                 extract_settings(FibreNew(CursorSeed,
                                     [start |-> 0, end |-> ALPHA_MAX])),
                                 r, Len(args.lut)),
                             Len(args.lut))
    /\ UNCHANGED <<api, obj, hmb, last, hist, called, args, wv, ms>>

NextCursor == CursorLookups

SpecCursor == InitCursor /\ [][NextCursor]_vars

\* C25 (cursor search equals full scan): for a table that is non-decreasing
\* in cumulative length, every lookup i of build_uniform, which scans
\* lut[last_match..], finds the entry a scan of the whole table from index 0
\* finds for the target i * (total / M), and finds none only when the whole
\* table holds none: the cursor never lies past the first qualifying entry.
C25_CursorEqualsFullScan ==
    fb.pc = "uniform" =>
        \A i \in 1 .. fb.m :
           LET c == fb.cursors[i]
           IN IF UniformQualifying(i) = {}
              THEN ~c.found /\ IsNaN(fb.alphas[i])
              ELSE /\ c.found
                   /\ c.matched + 1 \in UniformQualifying(i)
                   /\ \A j \in UniformQualifying(i) : c.matched + 1 <= j
                   /\ c.from <= c.matched
                   /\ fb.alphas[i] = fb.coarse[c.matched + 1][1]

\* A lookup started from a cursor above 0 and matched an entry further on,
\* and two lookups in a row matched the same entry.
C25_Witness ==
    /\ api = "build_uniform"
    /\ fb.pc = "uniform"
    /\ \E i \in 1 .. fb.m :
          /\ fb.cursors[i].found
          /\ fb.cursors[i].from > 0
          /\ fb.cursors[i].matched > fb.cursors[i].from
    /\ \E i \in 1 .. fb.m - 1 :
          /\ fb.cursors[i].found
          /\ fb.cursors[i + 1].found
          /\ fb.cursors[i].matched > 0
          /\ fb.cursors[i + 1].matched = fb.cursors[i].matched

\* C26 (path_length spans the range): the length Fibre::build takes of its
\* fibre, path_length(f, range, n), is the sum of the n chords between
\* consecutive samples at n equal steps from range.start, the last sample
\* lying n steps on, at range.end.
C26_PathLengthSpansRange ==
    (/\ api = "Fibre"
     /\ fb.pc = "adaptive"
     /\ fb.points = <<>>
     /\ fb.i = 0) =>
        path_length(fb.settings, args.alpha, PathLengthSteps) =
            PathLengthFold(fb.settings, args.alpha.start,
                           RDiv(args.alpha.end - args.alpha.start,
                                PathLengthSteps),
                           0, PathLengthSteps)

\* C27 (the lookup table spans the domain): the last entry of the table of
\* searchable_path_length holds the end of the domain as its parameter and,
\* as its cumulative length, the sum of the chords of the curve from the
\* start of the domain to its end.
C27_TableSpansDomain ==
    (api = "Fibre" /\ fb.pc = "uniform") =>
        LET tail == fb.table[Len(fb.table)]
            settings == extract_settings(FibreNew(args.sp, args.alpha))
            alpha_step == DivByCount(FSub(args.alpha.end, args.alpha.start),
                                     NDetailed)
        IN /\ tail[1] = args.alpha.end
           /\ tail[2] = PathLengthFold(settings, args.alpha.start,
                                       alpha_step, 0, NDetailed)

\* C28 (samples stay inside the domain): every parameter value Fibre::build
\* returns, the last one included, lies in the range [alpha.start,
\* alpha.end] of the fibre.
C28_SamplesInsideDomain ==
    (api = "Fibre" /\ fb.pc = "ok") =>
        \A k \in 1 .. Len(fb.alphas) :
           /\ fb.alphas[k] >= args.alpha.start
           /\ fb.alphas[k] <= args.alpha.end

\* build has been entered: fb is its frame.
BuildEntered(b) == "step" \in DOMAIN b

\* C29 (termination): a call of Fibre::build returns, Ok or
\* Err(NTriesExceed), and cannot run forever: entering the call and every
\* pass of its loops either returns one of the two, or accepts a point
\* whose parameter lies strictly beyond the last one and short of
\* alpha.end, or uses up one of the n_tries + 1 retries of the inner loop.
C29_Termination ==
    [][ (api = "Fibre" /\ BuildEntered(fb')) =>
           \/ fb'.pc \in {"ok", "err"}
           \/ /\ fb'.pc = "adaptive"
              /\ \/ fb.pc = "idle"
                 \/ /\ fb'.alpha_last > fb.alpha_last
                    /\ fb'.alpha_last < fb.alpha_end
                    /\ fb'.i = 0
                 \/ /\ fb'.alpha_last = fb.alpha_last
                    /\ fb'.i = fb.i + 1
                    /\ fb'.i <= fb.n_tries + 1
      ]_vars

\* ------------------------------------------------------------------------
\* binary_search (lib/src/binary_search.rs)
\* ------------------------------------------------------------------------

\* Longest array and largest element handed to binary_search.
MaxArrayLen == 3

MaxElement == 4

\* The non-empty arrays in increasing order, equal neighbours included.
SortedArrays ==
    UNION { { a \in [1 .. n -> 1 .. MaxElement] :
                \A k \in 1 .. n - 1 : a[k] <= a[k + 1] } :
            n \in 1 .. MaxArrayLen }

\* The values searched for: below, among and above the elements, and, T
\* being any PartialOrd type, the float that compares with nothing.
DesiredValues == (0 .. MaxElement + 1) \cup {NaN}

\* arr[k] of the slice, k counted from 0.
ArrAt(arr, k) == arr[k + 1]

\* enum Bracket.
Exact(k) == [kind |-> "Exact", low |-> k, high |-> k]

Between(low, high) == [kind |-> "Between", low |-> low, high |-> high]

OutOfBounds == [kind |-> "OutOfBounds", low |-> 0, high |-> 0]

\* binary_search up to its loop: the frame of the loop, or the return.
BinarySearchEnter(arr, desired) ==
    LET low == 0
        high == Len(arr) - 1
    IN IF FGt(ArrAt(arr, low), desired) \/ FLt(ArrAt(arr, high), desired)
       THEN [pc |-> "return", ret |-> OutOfBounds]
       ELSE [pc |-> "while", low |-> low, high |-> high]

\* The test of `while low <= high` and one pass of its body.
BinarySearchPass(b, arr, desired) ==
    IF ~(b.low <= b.high)
    THEN [pc |-> "return", ret |-> Between(b.high, b.low)]
    ELSE LET mid == (b.low + b.high) \div 2
         IN IF FLt(ArrAt(arr, mid), desired)
            THEN [b EXCEPT !.low = mid + 1]
            ELSE IF FGt(ArrAt(arr, mid), desired)
            THEN IF mid = 0
                 THEN [pc |-> "return", ret |-> Between(b.high, b.low)]
                 ELSE [b EXCEPT !.high = mid - 1]
            ELSE [pc |-> "return", ret |-> Exact(mid)]

InitSearch ==
    /\ api = "binary_search"
    /\ StoresFresh
    /\ args \in [arr : SortedArrays, desired : DesiredValues]
    /\ fb = FibreIdle
    /\ wv = WeaveIdle
    /\ ms = MeshIdle

SearchCall ==
    /\ fb.pc = "idle"
    /\ fb' = BinarySearchEnter(args.arr, args.desired)
    /\ UNCHANGED <<api, obj, hmb, last, hist, called, args, wv, ms>>

SearchPass ==
    /\ fb.pc = "while"
    /\ fb' = BinarySearchPass(fb, args.arr, args.desired)
    /\ UNCHANGED <<api, obj, hmb, last, hist, called, args, wv, ms>>

NextSearch == SearchCall \/ SearchPass

SpecSearch == InitSearch /\ [][NextSearch]_vars

\* desired is an element of arr.
Present(arr, desired) == \E k \in 1 .. Len(arr) : arr[k] = desired

\* C30 (binary_search): on a non-empty array in increasing order the
\* search terminates, every pass of the loop that does not return narrowing
\* low..high, and returns OutOfBounds exactly when desired < arr[0] or
\* desired > arr[last]; otherwise Exact(i) with arr[i] = desired when the
\* value is present, and Between(lo, hi) with hi = lo + 1 and
\* arr[lo] < desired < arr[hi] when it is absent.
C30_BinarySearch ==
    [][ (api = "binary_search" /\ fb'.pc # "idle") =>
           LET arr == args.arr
               desired == args.desired
               last_k == Len(arr) - 1
           IN /\ (fb.pc = "while" /\ fb'.pc = "while") =>
                    fb'.high - fb'.low < fb.high - fb.low
              /\ fb'.pc = "return" =>
                    IF \/ FLt(desired, ArrAt(arr, 0))
                       \/ FGt(desired, ArrAt(arr, last_k))
                    THEN fb'.ret = OutOfBounds
                    ELSE IF Present(arr, desired)
                    THEN /\ fb'.ret.kind = "Exact"
                         /\ fb'.ret.low \in 0 .. last_k
                         /\ ArrAt(arr, fb'.ret.low) = desired
                    ELSE /\ fb'.ret.kind = "Between"
                         /\ fb'.ret.low \in 0 .. last_k
                         /\ fb'.ret.high = fb'.ret.low + 1
                         /\ fb'.ret.high \in 0 .. last_k
                         /\ FLt(ArrAt(arr, fb'.ret.low), desired)
                         /\ FLt(desired, ArrAt(arr, fb'.ret.high))
      ]_vars

=============================================================================
